---- MODULE Spec2Model ----
(***************************************************************************)
(* Model of trw.train.job_executor2: the JobExecutor2 pool controller, its *)
(* worker processes and its result collector ("pin") threads.              *)
(*                                                                         *)
(* Granularity.  Every access to state shared between the controller, the  *)
(* workers, the collector threads and the consumer is a separate step      *)
(* whenever another unit can act between two accesses with a visible       *)
(* effect:                                                                 *)
(*   - put: enqueue on the input queue, then cursor/jobs_queued update;    *)
(*   - reset: drain of the shared queue, then session id increment;        *)
(*   - close: abort_event.set(), wait loop, terminate, join;               *)
(*   - start: one step (nothing it reads after spawning can change what it *)
(*     does); a close() from another process is one step as well;          *)
(*   - worker: get+transform, then the blocking output_queue.put;          *)
(*   - collector: abort check + fetch, session compare + full() test,      *)
(*     then the blocking output_queue.put.                                 *)
(* Sleeps are stuttering steps.  The collector's nb_try counter only       *)
(* decides when it sleeps and is not part of the state.                    *)
(***************************************************************************)
EXTENDS Integers, Sequences, FiniteSets, Bags, TLC

\* ---------------------------------------------------------------- bounds
MaxWorkers == 2        \* nb_workers ranges over 0..MaxWorkers
MaxPinThreads == 2     \* nb_pin_threads ranges over 1..MaxPinThreads
MaxUnits == 4          \* at most MaxUnits worker processes plus collector threads
MaxJobs == 2           \* at most MaxJobs jobs are ever submitted
MaxSession == 1        \* at most MaxSession reset() calls
MaxPayload == 1        \* payloads are 0..MaxPayload
max_queue_size_per_worker == 1             \* capacity of each worker queue
max_queue_size_pin_thread_per_worker == 1  \* shared queue capacity per worker
MaxTimeout == 2        \* start(timeout): timeout ranges over 0..MaxTimeout

\* ------------------------------------------------------------- constants
None == -1             \* Python's None (failure marker / nothing held)

\* the constructor's default: start() waits for the processes and threads
wait_until_processes_start == TRUE

\* the one payload on which the transform raises
FailPayload == MaxPayload

Payloads == 0..MaxPayload

\* one more payload, on which the transform returns None
NonePayload == MaxPayload + 1

VARIABLES
    nb_workers,            \* self.nb_workers
    nb_pin_threads,        \* self.nb_pin_threads
    abort_event,           \* self.abort_event (multiprocessing Event)
    worker_control,        \* self.worker_control, the round-robin cursor
    worker_input_queues,   \* self.worker_input_queues: index -> queue
    worker_output_queues,  \* self.worker_output_queues: index -> queue
    processes,             \* self.processes: the controller's process list
    worker_pc,             \* per worker process: "loop", "emit", "stopped", "terminated"
    worker_job,            \* per worker: (job_session_id, item) it holds
    pin_memory_threads,    \* self.pin_memory_threads: the controller's thread list
    pin_pc,                \* per collector thread: "top", "check", "put", "dead"
    pin_item,              \* per collector: (item_job_session_id, item) it holds
    queue_ctr,             \* per collector: queue_ctr
    pin_memory_queue,      \* self.pin_memory_queue (items carry their session tag as history)
    jobs_processed,        \* self.jobs_processed.value
    jobs_queued,           \* self.jobs_queued
    job_session_id,        \* self.job_session_id.value
    ctl_pc,                \* position of the controller thread
    ret,                   \* last completed controller call and its outcome; for
                           \* start also its timeout and the time it had waited at
                           \* return, both in units of wait_time
    submitted,             \* history: jobs enqueued by put, in order
    delivered              \* history: what the consumer retrieved, in order

vars == << nb_workers, nb_pin_threads, abort_event, worker_control,
           worker_input_queues, worker_output_queues, processes, worker_pc,
           worker_job, pin_memory_threads, pin_pc, pin_item, queue_ctr,
           pin_memory_queue, jobs_processed, jobs_queued, job_session_id,
           ctl_pc, ret, submitted, delivered >>

\* groups used in UNCHANGED clauses
config == << nb_workers, nb_pin_threads >>
workerState == << worker_pc, worker_job >>
pinState == << pin_pc, pin_item, queue_ctr >>
lists == << processes, pin_memory_threads >>
history == << submitted, delivered >>

\* ------------------------------------------------------------- helpers
NoItem == [sid |-> None, item |-> None]

\* self.pin_memory_queue = None
NoQueue == << NoItem >>

Workers == 0..(nb_workers - 1)
PinThreads == DOMAIN pin_pc

\* the opaque transform of the round-trip scenario: increment by one (and
\* None for the payload on which it returns None) ...
Transform(x) == IF x = NonePayload THEN None ELSE x + 1

\* ... which raises on one payload (failure-tolerance scenario)
TransformRaises(x) == x = FailPayload

\* multiprocessing.Queue.full() for a worker queue
QueueFull(q) == Len(q) >= max_queue_size_per_worker

\* (variant of PinCapacity: the shared queue of a pool without workers is
\* bounded as if it had one worker)
PinCapacity_bounded ==
    max_queue_size_pin_thread_per_worker *
        (IF nb_workers = 0 THEN 1 ELSE nb_workers)

\* maxsize given to the shared ThreadQueue; 0 means unbounded
PinCapacity == max_queue_size_pin_thread_per_worker * nb_workers

\* queue.Queue.full() for the shared queue
PinFull == PinCapacity > 0 /\ Len(pin_memory_queue) >= PinCapacity

\* (variant of is_idle: the pool always reports idle)
is_idle_always == TRUE

\* JobExecutor2.is_idle
is_idle == jobs_processed = jobs_queued

\* (variant of PutScan: a put loop that never tests queue.full())
PutScan_nocheck(i) == worker_control

\* the scan loop of put: range(nb_workers) iterations, each of which looks at
\* worker_input_queues[worker_control]
RECURSIVE PutScan(_)
PutScan(i) ==
    IF i >= nb_workers THEN None
    ELSE IF ~QueueFull(worker_input_queues[worker_control]) THEN worker_control
    ELSE PutScan(i + 1)

\* (variant of IsFullScan: a scan that does not advance the cursor)
RECURSIVE IsFullScan_noadvance(_, _)
IsFullScan_noadvance(i, wc) ==
    IF i >= nb_workers THEN << TRUE, wc >>
    ELSE IF ~QueueFull(worker_input_queues[wc]) THEN << FALSE, wc >>
    ELSE IsFullScan_noadvance(i + 1, wc)

\* (variant of IsFullScan: the cursor is moved past the queue found not full)
RECURSIVE IsFullScan_overshoot(_, _)
IsFullScan_overshoot(i, wc) ==
    IF i >= nb_workers THEN << TRUE, wc >>
    ELSE IF ~QueueFull(worker_input_queues[wc]) THEN << FALSE, (wc + 1) % nb_workers >>
    ELSE IsFullScan_overshoot(i + 1, (wc + 1) % nb_workers)

\* the scan loop of is_full: returns <<result, cursor after the call>>
RECURSIVE IsFullScan(_, _)
IsFullScan(i, wc) ==
    IF i >= nb_workers THEN << TRUE, wc >>
    ELSE IF ~QueueFull(worker_input_queues[wc]) THEN << FALSE, wc >>
    ELSE IsFullScan(i + 1, (wc + 1) % nb_workers)

\* (variant of WorkerResult: the worker emits the payload it received)
WorkerResult_untransformed(job) == job

\* what a worker emits for a job: the transformed payload, or None if the
\* transform raised, under the job's session id
WorkerResult(job) ==
    [sid |-> job.sid,
     item |-> IF TransformRaises(job.item) THEN None ELSE Transform(job.item)]

\* (variant of EmitResult: the result is emitted twice)
EmitResult_twice(q, r) == Append(Append(q, r), r)

\* (variant of EmitResult: nothing is emitted for a job whose transform raised)
EmitResult_skipfailed(q, r) == IF r.item = None THEN q ELSE Append(q, r)

\* output_queue.put((job_session_id, item)) in the worker
EmitResult(q, r) == Append(q, r)

\* (variant of SyncPut: batch_in is queued instead of batch_out)
SyncPut_untransformed(q, data) == Append(q, [sid |-> job_session_id, item |-> data])

\* put with nb_workers == 0: deepcopy, transform, pin_memory_queue.put(batch_out)
SyncPut(q, data) == Append(q, [sid |-> job_session_id, item |-> Transform(data)])

\* (variant of IsFailure: the collector never recognises a failure marker)
IsFailure_never(r) == FALSE

\* a result whose item is None is a failed job
IsFailure(r) == r.item = None

\* (variant of Stale: the collector takes every result for a current one)
Stale_never(r) == FALSE

\* item_job_session_id != job_session_id.value
Stale(r) == r.sid # job_session_id

Ret(op, val) == [op |-> op, val |-> val, timeout |-> 0, waiting_time |-> 0]

\* outcome of a start(timeout) call that had waited waiting_time at return
RetStart(timeout, waiting_time) ==
    [op |-> "start", val |-> "None", timeout |-> timeout,
     waiting_time |-> waiting_time]

\* ---------------------------------------------------------------- Init
\* State after JobExecutor2.__init__, which ends with start().
Init ==
    /\ nb_workers \in 0..MaxWorkers
    /\ nb_pin_threads \in 1..MaxPinThreads
    /\ nb_workers + nb_pin_threads <= MaxUnits
    /\ abort_event = FALSE
    /\ worker_control = 0
    /\ worker_input_queues = [i \in Workers |-> << >>]
    /\ worker_output_queues = [i \in Workers |-> << >>]
    /\ processes = [i \in 1..nb_workers |-> i - 1]
    /\ worker_pc = [i \in Workers |-> "loop"]
    /\ worker_job = [i \in Workers |-> NoItem]
    /\ pin_memory_threads =
          IF nb_workers = 0 THEN << >> ELSE [t \in 1..nb_pin_threads |-> t - 1]
    /\ pin_pc = IF nb_workers = 0 THEN << >>
                ELSE [t \in 0..(nb_pin_threads - 1) |-> "top"]
    /\ pin_item = [t \in DOMAIN pin_pc |-> NoItem]
    /\ queue_ctr = [t \in DOMAIN pin_pc |-> 0]
    /\ pin_memory_queue = << >>
    /\ jobs_processed = 0
    /\ jobs_queued = 0
    /\ job_session_id = 0
    /\ ctl_pc = "ready"
    /\ ret = Ret("init", "None")
    /\ submitted = << >>
    /\ delivered = << >>

\* ------------------------------------------------------------ controller

\* put with nb_workers == 0: the transform runs in the caller
put_sync(data) ==
    /\ ctl_pc = "ready"
    /\ nb_workers = 0
    /\ Len(submitted) < MaxJobs
    /\ IF TransformRaises(data)
       THEN /\ ret' = Ret("put", "TransformError")
            /\ UNCHANGED << pin_memory_queue, jobs_queued, submitted >>
       ELSE /\ ~PinFull
            /\ pin_memory_queue' = SyncPut(pin_memory_queue, data)
            /\ jobs_queued' = jobs_queued + 1
            /\ submitted' = Append(submitted, [sid |-> job_session_id, item |-> data])
            /\ ret' = Ret("put", "True")
    /\ UNCHANGED << config, abort_event, worker_control, worker_input_queues,
                    worker_output_queues, lists, workerState, pinState,
                    jobs_processed, job_session_id, ctl_pc, delivered >>

\* put with workers: the scan and queue.put(...), while fewer than limit jobs
\* were submitted
put_scan_upto(data, limit) ==
    /\ ctl_pc = "ready"
    /\ nb_workers > 0
    /\ worker_input_queues # << >>
    /\ IF PutScan(0) # None
       THEN /\ Len(submitted) < limit
            /\ worker_input_queues' =
                  [worker_input_queues EXCEPT ![PutScan(0)] =
                      Append(@, [sid |-> job_session_id, item |-> data])]
            /\ submitted' = Append(submitted, [sid |-> job_session_id, item |-> data])
            /\ ctl_pc' = "put_count"
            /\ UNCHANGED ret
       ELSE /\ ret' = Ret("put", "False")
            /\ UNCHANGED << worker_input_queues, submitted, ctl_pc >>
    /\ UNCHANGED << config, abort_event, worker_control, worker_output_queues,
                    lists, workerState, pinState, pin_memory_queue,
                    jobs_processed, jobs_queued, job_session_id, delivered >>

\* put with workers, at most MaxJobs jobs
put_scan(data) == put_scan_upto(data, MaxJobs)

\* (variant of put_count: the cursor stays where it is)
put_count_noadvance ==
    /\ ctl_pc = "put_count"
    /\ jobs_queued' = jobs_queued + 1
    /\ ret' = Ret("put", "True")
    /\ ctl_pc' = "ready"
    /\ UNCHANGED << config, abort_event, worker_control, worker_input_queues,
                    worker_output_queues, lists, workerState, pinState,
                    pin_memory_queue, jobs_processed, job_session_id, history >>

\* (variant of put_count: the accepted job is not counted in jobs_queued)
put_count_nocount ==
    /\ ctl_pc = "put_count"
    /\ worker_control' = (worker_control + 1) % nb_workers
    /\ ret' = Ret("put", "True")
    /\ ctl_pc' = "ready"
    /\ UNCHANGED << config, abort_event, worker_input_queues,
                    worker_output_queues, lists, workerState, pinState,
                    pin_memory_queue, jobs_processed, jobs_queued,
                    job_session_id, history >>

\* put with workers: cursor advance, jobs_queued += 1, return True
put_count ==
    /\ ctl_pc = "put_count"
    /\ worker_control' = (worker_control + 1) % nb_workers
    /\ jobs_queued' = jobs_queued + 1
    /\ ret' = Ret("put", "True")
    /\ ctl_pc' = "ready"
    /\ UNCHANGED << config, abort_event, worker_input_queues,
                    worker_output_queues, lists, workerState, pinState,
                    pin_memory_queue, jobs_processed, job_session_id, history >>

\* put / is_full once close() has emptied the queue lists: IndexError
call_after_close(op) ==
    /\ ctl_pc = "ready"
    /\ nb_workers > 0
    /\ worker_input_queues = << >>
    /\ ret' = Ret(op, "IndexError")
    /\ UNCHANGED << config, abort_event, worker_control, worker_input_queues,
                    worker_output_queues, lists, workerState, pinState,
                    pin_memory_queue, jobs_processed, jobs_queued,
                    job_session_id, ctl_pc, history >>

is_full ==
    /\ ctl_pc = "ready"
    /\ IF nb_workers = 0
       THEN /\ ret' = Ret("is_full", "False")
            /\ UNCHANGED worker_control
       ELSE /\ worker_input_queues # << >>
            /\ worker_control' = IsFullScan(0, worker_control)[2]
            /\ ret' = Ret("is_full",
                          IF IsFullScan(0, worker_control)[1] THEN "True" ELSE "False")
    /\ UNCHANGED << config, abort_event, worker_input_queues,
                    worker_output_queues, lists, workerState, pinState,
                    pin_memory_queue, jobs_processed, jobs_queued,
                    job_session_id, ctl_pc, history >>

\* (variant of reset_drain: reset also empties the worker input queues)
reset_drain_inputs ==
    /\ ctl_pc = "ready"
    /\ job_session_id < MaxSession
    /\ pin_memory_queue # NoQueue
    /\ pin_memory_queue' = << >>
    /\ worker_input_queues' = [i \in DOMAIN worker_input_queues |-> << >>]
    /\ ctl_pc' = "reset_inc"
    /\ UNCHANGED << config, abort_event, worker_control, worker_output_queues,
                    lists, workerState, pinState, jobs_processed, jobs_queued,
                    job_session_id, ret, history >>

\* reset: the drain loop over the shared queue
reset_drain ==
    /\ ctl_pc = "ready"
    /\ job_session_id < MaxSession
    /\ IF pin_memory_queue = NoQueue
       THEN /\ ret' = Ret("reset", "AttributeError")
            /\ UNCHANGED << pin_memory_queue, ctl_pc >>
       ELSE /\ pin_memory_queue' = << >>
            /\ ctl_pc' = "reset_inc"
            /\ UNCHANGED ret
    /\ UNCHANGED << config, abort_event, worker_control, worker_input_queues,
                    worker_output_queues, lists, workerState, pinState,
                    jobs_processed, jobs_queued, job_session_id, history >>

\* (variant of reset_inc: reset starts the session count again at 0)
reset_inc_restart ==
    /\ ctl_pc = "reset_inc"
    /\ job_session_id' = 0
    /\ ret' = Ret("reset", "None")
    /\ ctl_pc' = "ready"
    /\ UNCHANGED << config, abort_event, worker_control, worker_input_queues,
                    worker_output_queues, lists, workerState, pinState,
                    pin_memory_queue, jobs_processed, jobs_queued, history >>

\* reset: job_session_id.value += 1 under its lock
reset_inc ==
    /\ ctl_pc = "reset_inc"
    /\ job_session_id' = job_session_id + 1
    /\ ret' = Ret("reset", "None")
    /\ ctl_pc' = "ready"
    /\ UNCHANGED << config, abort_event, worker_control, worker_input_queues,
                    worker_output_queues, lists, workerState, pinState,
                    pin_memory_queue, jobs_processed, jobs_queued, history >>

\* (variant of AnyAlive: the wait loop always finds something alive)
AnyAlive_always == TRUE

\* close's wait loop: wait_more
AnyAlive ==
    \/ \E k \in DOMAIN processes : worker_pc[processes[k]] \in {"loop", "emit"}
    \/ \E k \in DOMAIN pin_memory_threads : pin_pc[pin_memory_threads[k]] # "dead"

\* close, called by the owning process: abort_event.set()
close_begin ==
    /\ ctl_pc = "ready"
    /\ abort_event' = TRUE
    /\ ctl_pc' = "close_wait"
    /\ UNCHANGED << config, worker_control, worker_input_queues,
                    worker_output_queues, lists, workerState, pinState,
                    pin_memory_queue, jobs_processed, jobs_queued,
                    job_session_id, ret, history >>

\* close: the wait loop ends because nothing is alive any more
close_wait_done ==
    /\ ctl_pc = "close_wait"
    /\ ~AnyAlive
    /\ ctl_pc' = "close_terminate"
    /\ UNCHANGED << config, abort_event, worker_control, worker_input_queues,
                    worker_output_queues, lists, workerState, pinState,
                    pin_memory_queue, jobs_processed, jobs_queued,
                    job_session_id, ret, history >>

\* close: the wait loop ends because the timeout elapsed
close_wait_timeout ==
    /\ ctl_pc = "close_wait"
    /\ AnyAlive
    /\ ctl_pc' = "close_terminate"
    /\ UNCHANGED << config, abort_event, worker_control, worker_input_queues,
                    worker_output_queues, lists, workerState, pinState,
                    pin_memory_queue, jobs_processed, jobs_queued,
                    job_session_id, ret, history >>

\* (variant of close_terminate: the lists are emptied but no process is
\* terminated)
close_terminate_nokill ==
    /\ ctl_pc = "close_terminate"
    /\ IF Len(processes) # 0
       THEN /\ worker_input_queues' = << >>
            /\ worker_output_queues' = << >>
            /\ processes' = << >>
       ELSE UNCHANGED << worker_input_queues, worker_output_queues, processes >>
    /\ ctl_pc' = "close_join"
    /\ UNCHANGED << config, abort_event, worker_control, workerState,
                    pin_memory_threads, pinState, pin_memory_queue,
                    jobs_processed, jobs_queued, job_session_id, ret, history >>

\* close: terminate() every process, close the worker queues, empty the lists
close_terminate ==
    /\ ctl_pc = "close_terminate"
    /\ IF Len(processes) # 0
       THEN /\ worker_pc' = [i \in DOMAIN worker_pc |->
                                IF worker_pc[i] = "stopped" THEN "stopped"
                                ELSE "terminated"]
            /\ worker_input_queues' = << >>
            /\ worker_output_queues' = << >>
            /\ processes' = << >>
       ELSE UNCHANGED << worker_pc, worker_input_queues, worker_output_queues,
                         processes >>
    /\ ctl_pc' = "close_join"
    /\ UNCHANGED << config, abort_event, worker_control, worker_job,
                    pin_memory_threads, pinState, pin_memory_queue,
                    jobs_processed, jobs_queued, job_session_id, ret, history >>

\* close: thread.join() for every collector thread, then drop the shared queue
close_join ==
    /\ ctl_pc = "close_join"
    /\ IF Len(pin_memory_threads) > 0
       THEN /\ \A k \in DOMAIN pin_memory_threads :
                   pin_pc[pin_memory_threads[k]] = "dead"
            /\ pin_memory_threads' = << >>
            /\ pin_memory_queue' = NoQueue
       ELSE UNCHANGED << pin_memory_threads, pin_memory_queue >>
    /\ ret' = Ret("close", "None")
    /\ ctl_pc' = "ready"
    /\ UNCHANGED << config, abort_event, worker_control, worker_input_queues,
                    worker_output_queues, processes, workerState, pinState,
                    jobs_processed, jobs_queued, job_session_id, history >>

\* close, called by a process that did not create the pool: abort_event.set()
\* on the shared event, then the ownership test and return
close_other_process ==
    /\ abort_event' = TRUE
    /\ UNCHANGED << config, worker_control, worker_input_queues,
                    worker_output_queues, lists, workerState, pinState,
                    pin_memory_queue, jobs_processed, jobs_queued,
                    job_session_id, ctl_pc, ret, history >>

\* (variant of RightSize: start always finds the pool at its configured size)
RightSize_always == TRUE

\* (variant of RightSize: start never finds the pool at its configured size)
RightSize_never == FALSE

\* start: len(self.processes) == self.nb_workers
RightSize == Len(processes) = nb_workers

\* start's loop: wait_more, some process or thread does not report alive
SomeNotAlive ==
    \/ \E k \in DOMAIN processes : worker_pc[processes[k]] \notin {"loop", "emit"}
    \/ \E k \in DOMAIN pin_memory_threads : pin_pc[pin_memory_threads[k]] = "dead"

\* start's loop body runs once: with wait_more and waiting_time < timeout it
\* sleeps wait_time, and in every case it then leaves the loop
StartWaitingTime(timeout) ==
    IF wait_until_processes_start /\ SomeNotAlive /\ 0 < timeout THEN 1 ELSE 0

\* start(timeout).  With processes to spawn it calls close() first, which
\* finds both lists empty and only sets abort_event, cleared again at once.
start(timeout) ==
    /\ ctl_pc = "ready"
    /\ pin_memory_queue' =
          IF pin_memory_queue = NoQueue THEN << >> ELSE pin_memory_queue
    /\ IF nb_workers = 0
       THEN /\ ret' = RetStart(timeout, 0)
            /\ UNCHANGED << abort_event, worker_control, worker_input_queues,
                            worker_output_queues, lists, workerState, pinState >>
       ELSE IF ~RightSize
       THEN /\ abort_event' = FALSE
            /\ worker_input_queues' = [i \in Workers |-> << >>]
            /\ worker_output_queues' = [i \in Workers |-> << >>]
            /\ processes' = [i \in 1..nb_workers |-> i - 1]
            /\ worker_pc' = [i \in Workers |-> "loop"]
            /\ worker_job' = [i \in Workers |-> NoItem]
            /\ pin_memory_threads' = [t \in 1..nb_pin_threads |-> t - 1]
            /\ pin_pc' = [t \in 0..(nb_pin_threads - 1) |-> "top"]
            /\ pin_item' = [t \in 0..(nb_pin_threads - 1) |-> NoItem]
            /\ queue_ctr' = [t \in 0..(nb_pin_threads - 1) |-> 0]
            /\ worker_control' = 0
            /\ ret' = RetStart(timeout, 0)
       ELSE /\ ret' = RetStart(timeout, StartWaitingTime(timeout))
            /\ UNCHANGED << abort_event, worker_control, worker_input_queues,
                            worker_output_queues, lists, workerState, pinState >>
    /\ UNCHANGED << config, jobs_processed, jobs_queued, job_session_id,
                    ctl_pc, history >>

\* ---------------------------------------------------------------- worker

\* (variant of worker_get: the worker reads the next worker's input queue)
worker_get_other(i) ==
    /\ worker_pc[i] = "loop"
    /\ ~abort_event
    /\ worker_input_queues # << >>
    /\ worker_input_queues[(i + 1) % nb_workers] # << >>
    /\ worker_job' = [worker_job EXCEPT
                         ![i] = WorkerResult(Head(worker_input_queues[(i + 1) % nb_workers]))]
    /\ worker_input_queues' =
          [worker_input_queues EXCEPT ![(i + 1) % nb_workers] = Tail(@)]
    /\ worker_pc' = [worker_pc EXCEPT ![i] = "emit"]
    /\ UNCHANGED << config, abort_event, worker_control, worker_output_queues,
                    lists, pinState, pin_memory_queue, jobs_processed,
                    jobs_queued, job_session_id, ctl_pc, ret, history >>

\* input_queue.get() and the transform
worker_get(i) ==
    /\ worker_pc[i] = "loop"
    /\ ~abort_event
    /\ worker_input_queues # << >>
    /\ worker_input_queues[i] # << >>
    /\ worker_job' = [worker_job EXCEPT ![i] = WorkerResult(Head(worker_input_queues[i]))]
    /\ worker_input_queues' = [worker_input_queues EXCEPT ![i] = Tail(@)]
    /\ worker_pc' = [worker_pc EXCEPT ![i] = "emit"]
    /\ UNCHANGED << config, abort_event, worker_control, worker_output_queues,
                    lists, pinState, pin_memory_queue, jobs_processed,
                    jobs_queued, job_session_id, ctl_pc, ret, history >>

\* output_queue.put((job_session_id, item)): blocks while the queue is full
worker_emit(i) ==
    /\ worker_pc[i] = "emit"
    /\ worker_output_queues # << >>
    /\ ~QueueFull(worker_output_queues[i])
    /\ worker_output_queues' = [worker_output_queues EXCEPT ![i] = EmitResult(@, worker_job[i])]
    /\ worker_job' = [worker_job EXCEPT ![i] = NoItem]
    /\ worker_pc' = [worker_pc EXCEPT ![i] = "loop"]
    /\ UNCHANGED << config, abort_event, worker_control, worker_input_queues,
                    lists, pinState, pin_memory_queue, jobs_processed,
                    jobs_queued, job_session_id, ctl_pc, ret, history >>

\* abort_event observed at the top of the loop
worker_exit(i) ==
    /\ worker_pc[i] = "loop"
    /\ abort_event
    /\ worker_pc' = [worker_pc EXCEPT ![i] = "stopped"]
    /\ UNCHANGED << config, abort_event, worker_control, worker_input_queues,
                    worker_output_queues, lists, worker_job, pinState,
                    pin_memory_queue, jobs_processed, jobs_queued,
                    job_session_id, ctl_pc, ret, history >>

\* KeyboardInterrupt raised anywhere in the worker's loop, its blocking put
\* included: abort_event.set() and return; a job it held is lost
worker_interrupt(i) ==
    /\ worker_pc[i] \in {"loop", "emit"}
    /\ abort_event' = TRUE
    /\ worker_pc' = [worker_pc EXCEPT ![i] = "stopped"]
    /\ worker_job' = [worker_job EXCEPT ![i] = NoItem]
    /\ UNCHANGED << config, worker_control, worker_input_queues,
                    worker_output_queues, lists, pinState, pin_memory_queue,
                    jobs_processed, jobs_queued, job_session_id, ctl_pc, ret,
                    history >>

\* ------------------------------------------------------- collector thread

\* (variant of pin_fetch: the collector keeps trying the same output queue)
pin_fetch_noadvance(t) ==
    /\ pin_pc[t] = "top"
    /\ ~abort_event
    /\ pin_item[t] = NoItem
    /\ worker_output_queues # << >>
    /\ LET q == queue_ctr[t]
       IN /\ queue_ctr' = [queue_ctr EXCEPT ![t] = q]
          /\ IF worker_output_queues[q] # << >>
             THEN /\ worker_output_queues' = [worker_output_queues EXCEPT ![q] = Tail(@)]
                  /\ IF IsFailure(Head(worker_output_queues[q]))
                     THEN /\ jobs_processed' = jobs_processed + 1
                          /\ UNCHANGED << pin_item, pin_pc >>
                     ELSE /\ pin_item' = [pin_item EXCEPT ![t] = Head(worker_output_queues[q])]
                          /\ pin_pc' = [pin_pc EXCEPT ![t] = "check"]
                          /\ UNCHANGED jobs_processed
             ELSE UNCHANGED << worker_output_queues, jobs_processed, pin_item, pin_pc >>
    /\ UNCHANGED << config, abort_event, worker_control, worker_input_queues,
                    lists, workerState, pin_memory_queue, jobs_queued,
                    job_session_id, ctl_pc, ret, history >>

\* nothing held: advance queue_ctr and try to fetch from that queue; a failure
\* marker is counted and dropped at once
pin_fetch(t) ==
    /\ pin_pc[t] = "top"
    /\ ~abort_event
    /\ pin_item[t] = NoItem
    /\ worker_output_queues # << >>
    /\ LET q == (queue_ctr[t] + 1) % nb_workers
       IN /\ queue_ctr' = [queue_ctr EXCEPT ![t] = q]
          /\ IF worker_output_queues[q] # << >>
             THEN /\ worker_output_queues' = [worker_output_queues EXCEPT ![q] = Tail(@)]
                  /\ IF IsFailure(Head(worker_output_queues[q]))
                     THEN /\ jobs_processed' = jobs_processed + 1
                          /\ UNCHANGED << pin_item, pin_pc >>
                     ELSE /\ pin_item' = [pin_item EXCEPT ![t] = Head(worker_output_queues[q])]
                          /\ pin_pc' = [pin_pc EXCEPT ![t] = "check"]
                          /\ UNCHANGED jobs_processed
             ELSE UNCHANGED << worker_output_queues, jobs_processed, pin_item, pin_pc >>
    /\ UNCHANGED << config, abort_event, worker_control, worker_input_queues,
                    lists, workerState, pin_memory_queue, jobs_queued,
                    job_session_id, ctl_pc, ret, history >>

\* an item is held from an earlier iteration: go on to the checks
pin_retry(t) ==
    /\ pin_pc[t] = "top"
    /\ ~abort_event
    /\ pin_item[t] # NoItem
    /\ pin_pc' = [pin_pc EXCEPT ![t] = "check"]
    /\ UNCHANGED << config, abort_event, worker_control, worker_input_queues,
                    worker_output_queues, lists, workerState, pin_item,
                    queue_ctr, pin_memory_queue, jobs_processed, jobs_queued,
                    job_session_id, ctl_pc, ret, history >>

\* (variant of pin_check: a stale result is discarded without being counted)
pin_check_nocount(t) ==
    /\ pin_pc[t] = "check"
    /\ IF Stale(pin_item[t])
       THEN /\ pin_item' = [pin_item EXCEPT ![t] = NoItem]
            /\ pin_pc' = [pin_pc EXCEPT ![t] = "top"]
       ELSE /\ pin_pc' = [pin_pc EXCEPT ![t] = IF PinFull THEN "top" ELSE "put"]
            /\ UNCHANGED pin_item
    /\ UNCHANGED << config, abort_event, worker_control, worker_input_queues,
                    worker_output_queues, lists, workerState, queue_ctr,
                    pin_memory_queue, jobs_processed, jobs_queued,
                    job_session_id, ctl_pc, ret, history >>

\* (variant of pin_check: a valid result is dropped, and counted, when the
\* shared queue is full)
pin_check_dropfull(t) ==
    /\ pin_pc[t] = "check"
    /\ pin_pc' = [pin_pc EXCEPT ![t] = IF Stale(pin_item[t]) \/ PinFull THEN "top" ELSE "put"]
    /\ IF Stale(pin_item[t]) \/ PinFull
       THEN /\ pin_item' = [pin_item EXCEPT ![t] = NoItem]
            /\ jobs_processed' = jobs_processed + 1
       ELSE UNCHANGED << pin_item, jobs_processed >>
    /\ UNCHANGED << config, abort_event, worker_control, worker_input_queues,
                    worker_output_queues, lists, workerState, queue_ctr,
                    pin_memory_queue, jobs_queued, job_session_id, ctl_pc,
                    ret, history >>

\* (variant of pin_check: on a full shared queue the collector exchanges the
\* result it holds with the oldest queued one)
pin_check_swap(t) ==
    /\ pin_pc[t] = "check"
    /\ IF Stale(pin_item[t])
       THEN /\ pin_item' = [pin_item EXCEPT ![t] = NoItem]
            /\ jobs_processed' = jobs_processed + 1
            /\ pin_pc' = [pin_pc EXCEPT ![t] = "top"]
            /\ UNCHANGED pin_memory_queue
       ELSE IF PinFull
       THEN /\ pin_memory_queue' = << pin_item[t] >> \o Tail(pin_memory_queue)
            /\ pin_item' = [pin_item EXCEPT ![t] = Head(pin_memory_queue)]
            /\ pin_pc' = [pin_pc EXCEPT ![t] = "top"]
            /\ UNCHANGED jobs_processed
       ELSE /\ pin_pc' = [pin_pc EXCEPT ![t] = "put"]
            /\ UNCHANGED << pin_item, jobs_processed, pin_memory_queue >>
    /\ UNCHANGED << config, abort_event, worker_control, worker_input_queues,
                    worker_output_queues, lists, workerState, queue_ctr,
                    jobs_queued, job_session_id, ctl_pc, ret, history >>

\* session comparison, then output_queue.full()
pin_check(t) ==
    /\ pin_pc[t] = "check"
    /\ IF Stale(pin_item[t])
       THEN /\ pin_item' = [pin_item EXCEPT ![t] = NoItem]
            /\ jobs_processed' = jobs_processed + 1
            /\ pin_pc' = [pin_pc EXCEPT ![t] = "top"]
       ELSE /\ pin_pc' = [pin_pc EXCEPT ![t] = IF PinFull THEN "top" ELSE "put"]
            /\ UNCHANGED << pin_item, jobs_processed >>
    /\ UNCHANGED << config, abort_event, worker_control, worker_input_queues,
                    worker_output_queues, lists, workerState, queue_ctr,
                    pin_memory_queue, jobs_queued, job_session_id, ctl_pc,
                    ret, history >>

\* output_queue.put(item): blocks while the shared queue is full
pin_put(t) ==
    /\ pin_pc[t] = "put"
    /\ ~PinFull
    /\ pin_memory_queue' = Append(pin_memory_queue, pin_item[t])
    /\ pin_item' = [pin_item EXCEPT ![t] = NoItem]
    /\ jobs_processed' = jobs_processed + 1
    /\ pin_pc' = [pin_pc EXCEPT ![t] = "top"]
    /\ UNCHANGED << config, abort_event, worker_control, worker_input_queues,
                    worker_output_queues, lists, workerState, queue_ctr,
                    jobs_queued, job_session_id, ctl_pc, ret, history >>

\* abort_event observed at the top of the loop
pin_exit(t) ==
    /\ pin_pc[t] = "top"
    /\ abort_event
    /\ pin_pc' = [pin_pc EXCEPT ![t] = "dead"]
    /\ UNCHANGED << config, abort_event, worker_control, worker_input_queues,
                    worker_output_queues, lists, workerState, pin_item,
                    queue_ctr, pin_memory_queue, jobs_processed, jobs_queued,
                    job_session_id, ctl_pc, ret, history >>

\* KeyboardInterrupt raised anywhere in the collector's loop:
\* abort_event.set() and the exception ends the thread; a result it held is
\* lost
pin_interrupt(t) ==
    /\ pin_pc[t] # "dead"
    /\ abort_event' = TRUE
    /\ pin_pc' = [pin_pc EXCEPT ![t] = "dead"]
    /\ pin_item' = [pin_item EXCEPT ![t] = NoItem]
    /\ UNCHANGED << config, worker_control, worker_input_queues,
                    worker_output_queues, lists, workerState, queue_ctr,
                    pin_memory_queue, jobs_processed, jobs_queued,
                    job_session_id, ctl_pc, ret, history >>

\* -------------------------------------------------------------- consumer

\* the consumer retrieves one payload from the shared queue
consumer_get ==
    /\ pin_memory_queue # NoQueue
    /\ pin_memory_queue # << >>
    /\ delivered' = Append(delivered,
                           [sid |-> Head(pin_memory_queue).sid,
                            item |-> Head(pin_memory_queue).item,
                            live |-> job_session_id])
    /\ pin_memory_queue' = Tail(pin_memory_queue)
    /\ UNCHANGED << config, abort_event, worker_control, worker_input_queues,
                    worker_output_queues, lists, workerState, pinState,
                    jobs_processed, jobs_queued, job_session_id, ctl_pc, ret,
                    submitted >>

\* ------------------------------------------------------- specifications
Put == \E data \in Payloads : put_sync(data) \/ put_scan(data)
PutCount == put_count
CallAfterClose == \E op \in {"put", "is_full"} : call_after_close(op)
IsFull == is_full
ResetDrain == reset_drain
ResetInc == reset_inc
CloseBegin == close_begin
CloseWait == close_wait_done \/ close_wait_timeout
CloseTerminate == close_terminate
CloseJoin == close_join
CloseOtherProcess == close_other_process
Start == \E timeout \in 0..MaxTimeout : start(timeout)
ConsumerGet == consumer_get

\* one step of worker process i
worker(i) ==
    /\ i \in DOMAIN worker_pc
    /\ (worker_get(i) \/ worker_emit(i) \/ worker_exit(i))

\* one step of collector thread t
collect_results_to_main_process(t) ==
    /\ t \in DOMAIN pin_pc
    /\ (pin_fetch(t) \/ pin_retry(t) \/ pin_check(t) \/ pin_put(t) \/ pin_exit(t))

WorkerStep == \E i \in 0..(MaxWorkers - 1) : worker(i)
PinStep == \E t \in 0..(MaxPinThreads - 1) : collect_results_to_main_process(t)

\* The whole program: every controller call, the workers, the collector
\* threads and the consumer.
Next ==
    \/ Put
    \/ PutCount
    \/ CallAfterClose
    \/ IsFull
    \/ ResetDrain
    \/ ResetInc
    \/ CloseBegin
    \/ CloseWait
    \/ CloseTerminate
    \/ CloseJoin
    \/ CloseOtherProcess
    \/ Start
    \/ WorkerStep
    \/ PinStep
    \/ ConsumerGet

Spec == Init /\ [][Next]_vars

\* The running pool: no reset and no close (so abort_event is never set).
RunWorkerStep == \E i \in 0..(MaxWorkers - 1) :
    i \in DOMAIN worker_pc /\ (worker_get(i) \/ worker_emit(i))
RunPinStep == \E t \in 0..(MaxPinThreads - 1) :
    t \in DOMAIN pin_pc /\ (pin_fetch(t) \/ pin_retry(t) \/ pin_check(t) \/ pin_put(t))

NextRun ==
    \/ Put
    \/ PutCount
    \/ IsFull
    \/ RunWorkerStep
    \/ RunPinStep
    \/ ConsumerGet

SpecRun == Init /\ [][NextRun]_vars

\* The running pool with workers, under the scheduling the code relies on:
\* a put that has enqueued its job completes, every worker process and every
\* collector thread keeps being scheduled.  The consumer is free to stop.
InitWorkers == Init /\ nb_workers >= 1

PutAsync == \E data \in Payloads : put_scan(data)

NextLive ==
    \/ PutAsync
    \/ PutCount
    \/ RunWorkerStep
    \/ RunPinStep
    \/ ConsumerGet

FairRun ==
    /\ WF_vars(PutCount)
    /\ \A i \in 0..(MaxWorkers - 1) :
          WF_vars(i \in DOMAIN worker_pc /\ (worker_get(i) \/ worker_emit(i)))
    /\ \A t \in 0..(MaxPinThreads - 1) :
          WF_vars(t \in DOMAIN pin_pc /\
                  (pin_fetch(t) \/ pin_retry(t) \/ pin_check(t) \/ pin_put(t)))

SpecNoDrain == InitWorkers /\ [][NextLive]_vars /\ FairRun

\* ... and with a consumer that keeps retrieving from the shared queue.
SpecDrain == InitWorkers /\ [][NextLive]_vars /\ FairRun /\ WF_vars(ConsumerGet)

\* put, close, workers, collectors and a consumer that is free to stop; the
\* controller completes the call it is in, workers and collectors keep being
\* scheduled.
NextClose ==
    \/ Put
    \/ PutCount
    \/ CloseBegin
    \/ CloseWait
    \/ CloseTerminate
    \/ CloseJoin
    \/ WorkerStep
    \/ PinStep
    \/ ConsumerGet

FairClose ==
    /\ WF_vars(PutCount)
    /\ WF_vars(CloseWait)
    /\ WF_vars(CloseTerminate)
    /\ WF_vars(CloseJoin)
    /\ \A i \in 0..(MaxWorkers - 1) : WF_vars(worker(i))
    /\ \A t \in 0..(MaxPinThreads - 1) : WF_vars(collect_results_to_main_process(t))

SpecClose == Init /\ [][NextClose]_vars /\ FairClose

\* put and close with workers and collectors, and a consumer that never
\* retrieves anything.
NextShutdown ==
    \/ Put
    \/ PutCount
    \/ CloseBegin
    \/ CloseWait
    \/ CloseTerminate
    \/ CloseJoin
    \/ WorkerStep
    \/ PinStep

SpecShutdown == Init /\ [][NextShutdown]_vars

\* The running pool with workers (fewer than MaxUnits processes and threads)
\* and reset, and a consumer that never retrieves anything, under the
\* scheduling the code relies on: the controller completes the call it is in,
\* every worker process and every collector thread keeps being scheduled.
InitReset == InitWorkers /\ nb_workers + nb_pin_threads < MaxUnits

NextReset ==
    \/ PutAsync
    \/ PutCount
    \/ ResetDrain
    \/ ResetInc
    \/ RunWorkerStep
    \/ RunPinStep

FairReset == FairRun /\ WF_vars(ResetInc)

SpecReset == InitReset /\ [][NextReset]_vars /\ FairReset

\* The running pool with start() called again at any time, and a consumer
\* that never retrieves anything.
NextStart ==
    \/ Put
    \/ PutCount
    \/ Start
    \/ RunWorkerStep
    \/ RunPinStep

SpecStart == Init /\ [][NextStart]_vars

\* the state a completed close() of the owning process leaves
Closed ==
    /\ abort_event
    /\ processes = << >>
    /\ pin_memory_threads = << >>
    /\ worker_input_queues = << >>
    /\ worker_output_queues = << >>
    /\ nb_workers > 0 => pin_memory_queue = NoQueue

\* The life cycle of a pool with workers (fewer than MaxUnits processes and
\* threads): put, close, and every public operation called again once
\* close() has completed; the consumer never retrieves anything.
NextLifecycle ==
    \/ PutAsync
    \/ PutCount
    \/ CloseBegin
    \/ CloseWait
    \/ CloseTerminate
    \/ CloseJoin
    \/ (Closed /\ CallAfterClose)
    \/ (Closed /\ ResetDrain)
    \/ (Closed /\ Start)
    \/ WorkerStep
    \/ PinStep

SpecLifecycle == InitReset /\ [][NextLifecycle]_vars

\* The running pool whose abort signal is set from outside the controller
\* (close() called by another process), so that no unit is terminated by
\* force; every worker process and every collector thread keeps being
\* scheduled, the consumer is free to stop.
NextAbort ==
    \/ Put
    \/ PutCount
    \/ CloseOtherProcess
    \/ WorkerStep
    \/ PinStep
    \/ ConsumerGet

FairAbort ==
    /\ WF_vars(PutCount)
    /\ \A i \in 0..(MaxWorkers - 1) : WF_vars(worker(i))
    /\ \A t \in 0..(MaxPinThreads - 1) : WF_vars(collect_results_to_main_process(t))

SpecAbort == Init /\ [][NextAbort]_vars /\ FairAbort

\* The running pool with workers whose transform returns None on one of the
\* payloads it is given.
PutAny == \E data \in Payloads \cup {NonePayload} : put_scan(data)

NextNone ==
    \/ PutAny
    \/ PutCount
    \/ RunWorkerStep
    \/ RunPinStep
    \/ ConsumerGet

SpecNone == InitWorkers /\ [][NextNone]_vars

\* The running pool in which a worker process or a collector thread can
\* receive an interrupt signal at any time; nothing else sets the abort
\* signal.  Every worker process and every collector thread keeps being
\* scheduled, the consumer is free to stop.
WorkerInterrupt == \E i \in 0..(MaxWorkers - 1) :
    i \in DOMAIN worker_pc /\ worker_interrupt(i)
PinInterrupt == \E t \in 0..(MaxPinThreads - 1) :
    t \in DOMAIN pin_pc /\ pin_interrupt(t)

NextInterrupt ==
    \/ Put
    \/ PutCount
    \/ WorkerInterrupt
    \/ PinInterrupt
    \/ WorkerStep
    \/ PinStep
    \/ ConsumerGet

SpecInterrupt == Init /\ [][NextInterrupt]_vars /\ FairAbort

\* The life cycle of a pool of one worker and one collector thread that is
\* given enough jobs to fill the worker's two queues, the worker, the
\* collector and the shared queue, and one more; the consumer never retrieves
\* anything.
MaxBacklog ==
    2 * max_queue_size_per_worker + max_queue_size_pin_thread_per_worker + 3

InitBacklog == Init /\ nb_workers = 1 /\ nb_pin_threads = 1

PutMany == put_scan_upto(0, MaxBacklog)

NextBacklog ==
    \/ PutMany
    \/ PutCount
    \/ CloseBegin
    \/ CloseWait
    \/ CloseTerminate
    \/ CloseJoin
    \/ (Closed /\ Start)
    \/ WorkerStep
    \/ PinStep

SpecBacklog == InitBacklog /\ [][NextBacklog]_vars

\* the same pool while it runs: no close
NextBacklogRun ==
    \/ PutMany
    \/ PutCount
    \/ RunWorkerStep
    \/ RunPinStep

SpecBacklogRun == InitBacklog /\ [][NextBacklogRun]_vars

\* The running pool with workers, given one more payload on which the
\* transform succeeds, so that two successful jobs can differ.
OtherPayload == MaxPayload + 2

PutOrdered == \E data \in Payloads \cup {OtherPayload} : put_scan(data)

NextOrdered ==
    \/ PutOrdered
    \/ PutCount
    \/ RunWorkerStep
    \/ RunPinStep
    \/ ConsumerGet

SpecOrdered == InitWorkers /\ [][NextOrdered]_vars

\* ---------------------------------------------------------------- claims

AllInputFull ==
    /\ worker_input_queues # << >>
    /\ \A i \in DOMAIN worker_input_queues :
          Len(worker_input_queues[i]) = max_queue_size_per_worker

SomeInputNotFull ==
    /\ worker_input_queues # << >>
    /\ \E i \in DOMAIN worker_input_queues :
          Len(worker_input_queues[i]) < max_queue_size_per_worker

\* C2: when reset() came before any retrieval, every result the consumer
\* retrieves after reset() returned carries the session id that is live at
\* the retrieval (no result of the superseded session is observed), and the
\* consumer retrieves at most as many results as jobs of the new session
\* were submitted.
C2_NoStaleResultAfterReset ==
    (\A k \in DOMAIN delivered : delivered[k].live >= 1) =>
        /\ \A k \in DOMAIN delivered : delivered[k].sid = delivered[k].live
        /\ Len(delivered) <= Cardinality({k \in DOMAIN submitted : submitted[k].sid >= 1})

\* C3: a put call (nb_workers >= 1) enqueues the job exactly when some
\* worker input queue is not full, wherever the cursor points; it is
\* rejected only when every input queue is full.
C3_PutAcceptsWhenRoom ==
    [][\A d \in Payloads :
          put_scan(d) => (ctl_pc' = "put_count" <=> SomeInputNotFull)]_vars

\* C4: a put call made when every worker input queue is full returns False
\* and leaves jobs_queued, the cursor, the session id, every queue and every
\* other part of the state as they were.
C4_PutFullChangesNothing ==
    [][\A d \in Payloads :
          (put_scan(d) /\ AllInputFull) =>
              /\ ret' = Ret("put", "False")
              /\ UNCHANGED << config, abort_event, worker_control,
                              worker_input_queues, worker_output_queues, lists,
                              workerState, pinState, pin_memory_queue,
                              jobs_processed, jobs_queued, job_session_id,
                              ctl_pc, history >>]_vars

\* C4 witness: a put was rejected with every input queue full
C4_Witness ==
    /\ nb_workers >= 1
    /\ ctl_pc = "ready"
    /\ ret = Ret("put", "False")
    /\ AllInputFull

\* the items of a sequence of tagged items, as a bag
BagOfItems(s) ==
    [x \in {s[k].item : k \in DOMAIN s} |->
        Cardinality({k \in DOMAIN s : s[k].item = x})]

\* the submitted payloads whose transform returns, incremented by one
ExpectedItems ==
    LET ok == SelectSeq(submitted, LAMBDA j : j.item # FailPayload)
    IN [k \in DOMAIN ok |-> [item |-> ok[k].item + 1]]

NoneRaised == \A k \in DOMAIN submitted : submitted[k].item # FailPayload

NoJobInFlight ==
    /\ \A i \in DOMAIN worker_input_queues : worker_input_queues[i] = << >>
    /\ \A i \in DOMAIN worker_output_queues : worker_output_queues[i] = << >>
    /\ \A i \in DOMAIN worker_job : worker_job[i] = NoItem
    /\ \A t \in DOMAIN pin_item : pin_item[t] = NoItem

\* C1 (as stated): after a finite sequence of accepted put calls and no
\* reset, a pool with workers reaches a state where is_idle() is true.
C1_EventuallyIdle == []<>is_idle

\* C1 (amended): the same, provided the shared consumer queue does not stay
\* full for ever, that is, provided the consumer keeps retrieving results.
C1_EventuallyIdleIfDrained == (<>[]PinFull) \/ ([]<>is_idle)

\* C1 witness: jobs were accepted and the pool is idle again
C1_Witness ==
    /\ nb_workers >= 1
    /\ ctl_pc = "ready"
    /\ jobs_queued = MaxJobs
    /\ is_idle

\* C5: with workers, no reset and no raising transform, the consumer never
\* retrieves a payload that is not the transform of a submitted one (nothing
\* duplicated), once no job is in flight every submitted job is in the shared
\* queue or retrieved (nothing lost), and once it has retrieved as many items
\* as were submitted the bag of retrieved payloads is the bag of transformed
\* submitted payloads.
C5_ExactlyOnceDelivery ==
    (nb_workers >= 1 /\ NoneRaised) =>
        /\ BagOfItems(delivered) \sqsubseteq BagOfItems(ExpectedItems)
        /\ (ctl_pc = "ready" /\ NoJobInFlight) =>
              Len(delivered) + Len(pin_memory_queue) = Len(submitted)
        /\ Len(delivered) = Len(submitted) =>
              BagOfItems(delivered) = BagOfItems(ExpectedItems)

\* C5 witness: every submitted job was retrieved
C5_Witness ==
    /\ nb_workers >= 1
    /\ NoneRaised
    /\ Len(submitted) = MaxJobs
    /\ Len(delivered) = Len(submitted)

\* C6: with a transform that raises on some jobs, no reset and a draining
\* consumer, the pool becomes idle again, no worker ever stops, and once the
\* pool is idle and the shared queue drained the consumer has retrieved
\* exactly the transformed payloads of the jobs that did not fail.
C6_FailureTolerated ==
    /\ []<>is_idle
    /\ [](\A i \in DOMAIN worker_pc : worker_pc[i] \in {"loop", "emit"})
    /\ []((ctl_pc = "ready" /\ is_idle /\ pin_memory_queue = << >>) =>
              BagOfItems(delivered) = BagOfItems(ExpectedItems))

\* C6 witness: one worker, its first job failed, its second job was retrieved
C6_Witness ==
    /\ nb_workers = 1
    /\ is_idle
    /\ Len(submitted) = 2
    /\ submitted[1].item = FailPayload
    /\ submitted[2].item # FailPayload
    /\ Len(delivered) = 1
    /\ worker_pc[0] = "loop"

\* C7: no put call ends with the transform's exception, for any worker count.
C7_TransformErrorNeverSurfaces == ret.val # "TransformError"

\* C8: with nb_workers = 0 a put call whose transform returns is one step of
\* the caller: it returns True, jobs_queued grows by one, the transformed
\* payload is the newest item of the shared queue, and there is no worker
\* process or collector thread.
C8_SyncPutDeliversAtOnce ==
    [][\A d \in Payloads :
          (put_sync(d) /\ d # FailPayload) =>
              /\ ret' = Ret("put", "True")
              /\ jobs_queued' = jobs_queued + 1
              /\ Len(pin_memory_queue') = Len(pin_memory_queue) + 1
              /\ pin_memory_queue'[Len(pin_memory_queue')].item = d + 1
              /\ SubSeq(pin_memory_queue', 1, Len(pin_memory_queue)) = pin_memory_queue
              /\ DOMAIN worker_pc = {}
              /\ DOMAIN pin_pc = {}
              /\ ctl_pc' = "ready"]_vars

\* C8 witness: two synchronous puts have returned True
C8_Witness ==
    /\ nb_workers = 0
    /\ ret = Ret("put", "True")
    /\ jobs_queued = 2
    /\ Len(pin_memory_queue) + Len(delivered) = 2

\* C9: whenever the controller is between calls and no job is in a worker
\* input queue, held by a worker, in a worker output queue or held by a
\* collector thread, jobs_queued = jobs_processed, for every worker count.
C9_IdleWhenNothingInFlight == (ctl_pc = "ready" /\ NoJobInFlight) => is_idle

\* C10: a close() call of the owning process eventually returns, with no
\* worker process alive and every collector thread exited, also when the
\* consumer never drains the shared queue.
C10_CloseReturns ==
    (ctl_pc = "close_wait") ~>
        (/\ ctl_pc = "ready"
         /\ \A i \in DOMAIN worker_pc : worker_pc[i] \in {"stopped", "terminated"}
         /\ \A t \in DOMAIN pin_pc : pin_pc[t] = "dead")

\* C11: every step of a close() call made after a completed close() leaves
\* the abort signal, the processes, the threads, the queue lists, the shared
\* queue, the counters and the session id as they were; its wait loop does
\* not run into the timeout and it returns without an error.
C11_CloseIdempotent ==
    [][(Closed /\ (close_begin \/ CloseWait \/ close_terminate \/ close_join)) =>
          /\ UNCHANGED << config, abort_event, worker_control,
                          worker_input_queues, worker_output_queues, lists,
                          workerState, pinState, pin_memory_queue,
                          jobs_processed, jobs_queued, job_session_id, history >>
          /\ ~close_wait_timeout
          /\ close_join => (ret' = Ret("close", "None") /\ ctl_pc' = "ready")]_vars

\* C11 witness: a pool with workers that had accepted a job is in the last
\* step of its second close()
C11_Witness ==
    /\ nb_workers >= 1
    /\ jobs_queued >= 1
    /\ Closed
    /\ ctl_pc = "close_join"

\* C12: a close() call from a process that did not create the pool changes
\* nothing: the abort signal, the workers, the collector threads, the
\* queues, the counters and the session id stay as they were.
C12_CloseOtherProcessNoOp == [][close_other_process => UNCHANGED vars]_vars

\* C13: when close() has returned, also after its wait loop ran into the
\* timeout and processes were terminated by force, no worker process is
\* alive, every collector thread has ended, and the controller's lists of
\* processes, worker input queues, worker output queues and collector
\* threads are empty.
C13_CloseLeavesConsistent ==
    (ctl_pc = "ready" /\ ret = Ret("close", "None")) =>
        /\ \A i \in DOMAIN worker_pc : worker_pc[i] \in {"stopped", "terminated"}
        /\ \A t \in DOMAIN pin_pc : pin_pc[t] = "dead"
        /\ processes = << >>
        /\ worker_input_queues = << >>
        /\ worker_output_queues = << >>
        /\ pin_memory_threads = << >>

\* C13 witness: close() has returned after the timeout path, a worker that
\* was still holding a job having been terminated by force
C13_Witness ==
    /\ ctl_pc = "ready"
    /\ ret = Ret("close", "None")
    /\ \E i \in DOMAIN worker_pc :
          worker_pc[i] = "terminated" /\ worker_job[i] # NoItem

NoPutAfterReset == \A k \in DOMAIN submitted : submitted[k].sid = 0

\* C16: when no job is put after the reset, the pool becomes idle after
\* reset() has returned, although the consumer never reads the shared queue:
\* the jobs dispatched before the reset are run and counted in
\* jobs_processed when their results surface.
C16_IdleAfterReset ==
    ([]NoPutAfterReset) =>
        ((ctl_pc = "ready" /\ job_session_id = 1) ~> is_idle)

\* C15: the session id changes only in reset()'s increment step, which
\* raises it by exactly one; no step of put, is_full, start, close, a
\* worker, a collector thread or the consumer changes it, and it never
\* decreases.
C15_SessionOnlyByReset ==
    [][/\ job_session_id' >= job_session_id
       /\ job_session_id' # job_session_id =>
             (reset_inc /\ job_session_id' = job_session_id + 1)
       /\ reset_inc => job_session_id' = job_session_id + 1]_vars

\* C15 witness: reset() has returned and raised the session id from 0 to 1
\* in a pool that had accepted jobs
C15_Witness ==
    /\ ctl_pc = "ready"
    /\ ret = Ret("reset", "None")
    /\ job_session_id = 1
    /\ jobs_queued = MaxJobs

\* C17: whenever the controller can call put, the one queue operation of
\* put that could wait has room: with nb_workers = 0 the shared queue is not
\* full (it is unbounded), and with workers the input queue the scan selects
\* is not full; otherwise put returns False without touching a queue.
C17_PutNeverBlocks ==
    ctl_pc = "ready" =>
        /\ nb_workers = 0 => ~PinFull
        /\ (nb_workers > 0 /\ worker_input_queues # << >> /\ PutScan(0) # None) =>
              ~QueueFull(worker_input_queues[PutScan(0)])

\* C17 witness: a pool without workers whose shared queue holds more items
\* than max_queue_size_pin_thread_per_worker after puts that returned True
C17_Witness ==
    /\ nb_workers = 0
    /\ ctl_pc = "ready"
    /\ ret = Ret("put", "True")
    /\ Len(pin_memory_queue) > max_queue_size_pin_thread_per_worker

\* C18: is_full() returns True exactly when there are workers and every
\* worker input queue is full, for every position of the cursor.
C18_IsFullIffAllFull ==
    [][is_full =>
          /\ ret'.op = "is_full"
          /\ ret'.val = "True" <=> (nb_workers > 0 /\ AllInputFull)
          /\ ret'.val = "False" <=> (nb_workers = 0 \/ SomeInputNotFull)]_vars

\* C18 witness: is_full() scanned both input queues of a pool of two
\* workers, found them full and returned True
C18_Witness ==
    /\ nb_workers = 2
    /\ ctl_pc = "ready"
    /\ ret = Ret("is_full", "True")
    /\ AllInputFull

\* C19: when start(timeout) waits for the processes and threads, it returns
\* only with every worker process and every collector thread alive, or
\* after it has waited for the whole timeout.
C19_StartWaitsUntilAlive ==
    [][\A timeout \in 0..MaxTimeout :
          (start(timeout) /\ wait_until_processes_start) =>
              (~SomeNotAlive' \/ ret'.waiting_time >= timeout)]_vars

\* C20: a start() call on a pool that has its configured number of worker
\* processes spawns nothing and allocates nothing: processes, threads, the
\* worker queues and their contents, the shared queue, the cursor, the
\* counters, the session id and the abort signal are left as they were.
C20_StartIdempotent ==
    [][\A timeout \in 0..MaxTimeout :
          (start(timeout) /\ Len(processes) = nb_workers) =>
              /\ UNCHANGED << config, abort_event, worker_control,
                              worker_input_queues, worker_output_queues, lists,
                              workerState, pinState, pin_memory_queue,
                              jobs_processed, jobs_queued, job_session_id,
                              ctl_pc, history >>
              /\ ret'.op = "start"]_vars

\* C20 witness: start() has returned in a pool of two workers while jobs
\* were in its queues or in its workers' or collectors' hands
C20_Witness ==
    /\ nb_workers = 2
    /\ ctl_pc = "ready"
    /\ ret.op = "start"
    /\ jobs_queued = MaxJobs
    /\ ~NoJobInFlight

\* no worker process and no collector thread is alive
NoUnitAlive ==
    /\ \A i \in DOMAIN worker_pc : worker_pc[i] \in {"stopped", "terminated"}
    /\ \A t \in DOMAIN pin_pc : pin_pc[t] = "dead"

C22_AbortObservedByAll ==
    abort_event ~>
        (/\ \A i \in DOMAIN worker_pc : worker_pc[i] = "stopped"
         /\ \A t \in DOMAIN pin_pc : pin_pc[t] = "dead")

\* C23: a worker step that dequeues a job runs the transform on it and holds
\* exactly its result (the transformed payload, or the failure marker if
\* the transform raised) under the job's session id; the worker's next step
\* puts that one result at the end of its own output queue; no other queue
\* is touched by either step.
C23_WorkerOneResultPerJob ==
    [][\A i \in DOMAIN worker_pc :
          /\ worker_get(i) =>
                LET job == Head(worker_input_queues[i])
                IN /\ worker_job'[i].sid = job.sid
                   /\ worker_job'[i].item =
                         (IF job.item = FailPayload THEN None ELSE job.item + 1)
                   /\ worker_input_queues'[i] = Tail(worker_input_queues[i])
                   /\ \A j \in DOMAIN worker_pc \ {i} :
                         /\ worker_input_queues'[j] = worker_input_queues[j]
                         /\ worker_job'[j] = worker_job[j]
                   /\ UNCHANGED << worker_output_queues, pin_memory_queue >>
          /\ worker_emit(i) =>
                /\ worker_output_queues'[i] =
                      Append(worker_output_queues[i], worker_job[i])
                /\ worker_job'[i] = NoItem
                /\ \A j \in DOMAIN worker_pc \ {i} :
                      /\ worker_output_queues'[j] = worker_output_queues[j]
                      /\ worker_job'[j] = worker_job[j]
                /\ UNCHANGED << worker_input_queues, pin_memory_queue >>
          /\ (worker_pc[i] = "emit" /\ worker_pc'[i] = "loop") => worker_emit(i)
          /\ (worker_pc[i] = "loop" /\ worker_pc'[i] = "emit") => worker_get(i)]_vars

\* C23 witness: one worker has dequeued a failing job and a succeeding job;
\* the failure marker is on its output queue and it holds the second result
C23_Witness ==
    /\ nb_workers = 1
    /\ worker_output_queues[0] = << [sid |-> 0, item |-> None] >>
    /\ worker_pc[0] = "emit"
    /\ worker_job[0] = [sid |-> 0, item |-> 1]
    /\ worker_input_queues[0] = << >>

\* every accepted job is in exactly one place: a worker input queue, a
\* worker's hands, a worker output queue, a collector's hands, or counted
JobsAccountedFor ==
    LET RECURSIVE Sum(_, _)
        Sum(f, S) == IF S = {} THEN 0
                     ELSE LET x == CHOOSE y \in S : TRUE IN f[x] + Sum(f, S \ {x})
        inq == [i \in DOMAIN worker_input_queues |-> Len(worker_input_queues[i])]
        outq == [i \in DOMAIN worker_output_queues |-> Len(worker_output_queues[i])]
        held == [i \in DOMAIN worker_job |-> IF worker_job[i] = NoItem THEN 0 ELSE 1]
        pinned == [t \in DOMAIN pin_item |-> IF pin_item[t] = NoItem THEN 0 ELSE 1]
    IN Sum(inq, DOMAIN inq) + Sum(outq, DOMAIN outq) + Sum(held, DOMAIN held)
         + Sum(pinned, DOMAIN pinned) + jobs_processed = Len(submitted)

\* C24: with workers, every accepted job is at any time either waiting in
\* an input queue, held by one worker, waiting in an output queue, held by
\* one collector thread, or counted once in jobs_processed: a result taken
\* from an output queue is held by one collector only and is counted once,
\* whether it is delivered, stale or a failure marker.
C24_EachResultCountedOnce == nb_workers >= 1 => JobsAccountedFor

\* C24 witness: two collector threads have counted a failure marker and a
\* result that was delivered or discarded as stale after a reset
C24_Witness ==
    /\ nb_pin_threads = 2
    /\ job_session_id = 1
    /\ Len(submitted) = 2
    /\ submitted[1].item = FailPayload
    /\ submitted[2].item # FailPayload
    /\ jobs_processed = 2

\* C25: in the running pool every step of a collector thread that holds a
\* result either keeps holding it (the shared queue was full, or the step
\* only moved on to the checks), or appends it to the shared queue and
\* counts it in the same step, or discards and counts it because its
\* session id is not the live one; it is never dropped because the shared
\* queue is full, and never counted before it was pushed.
C25_NoDropOnBackpressure ==
    [][\A t \in DOMAIN pin_pc :
          (pin_item[t] # NoItem /\ pin_item'[t] # pin_item[t]) =>
              /\ pin_item'[t] = NoItem
              /\ jobs_processed' = jobs_processed + 1
              /\ \/ /\ ~PinFull
                    /\ pin_memory_queue' = Append(pin_memory_queue, pin_item[t])
                 \/ /\ Stale(pin_item[t])
                    /\ UNCHANGED pin_memory_queue]_vars

\* C25 witness: a collector thread is back at the top of its loop holding
\* a result of the live session while the shared queue is full
C25_Witness ==
    /\ PinFull
    /\ \E t \in DOMAIN pin_pc :
          /\ pin_pc[t] = "top"
          /\ pin_item[t] # NoItem
          /\ ~Stale(pin_item[t])
    /\ job_session_id = 1

\* C26: no worker puts a result on its output queue once the abort signal
\* is set: a worker that holds a job when the signal is set exits without
\* emitting its result.
C26_NoEmitAfterAbort ==
    [][\A i \in DOMAIN worker_pc : worker_emit(i) => ~abort_event]_vars

\* C27: with workers and no reset, once every accepted job has been
\* processed and the shared queue is drained, the consumer has retrieved one
\* result for every job whose transform returned, whatever it returned
\* (None included); only the jobs whose transform raised are missing.
C27_NoneResultDelivered ==
    (ctl_pc = "ready" /\ is_idle /\ NoJobInFlight /\ pin_memory_queue = << >>) =>
        Len(delivered) =
            Cardinality({k \in DOMAIN submitted : ~TransformRaises(submitted[k].item)})

\* C28: with workers, whenever the controller is between calls and
\* jobs_processed = jobs_queued (is_idle() would return True), no job is in
\* a worker input queue, held by a worker, in a worker output queue or held
\* by a collector thread.
C28_IdleMeansNothingInFlight ==
    (nb_workers >= 1 /\ ctl_pc = "ready" /\ is_idle) => NoJobInFlight

\* C28 witness: the pool is idle again after a reset, all its jobs having
\* been processed
C28_Witness ==
    /\ nb_workers >= 1
    /\ ctl_pc = "ready"
    /\ job_session_id = 1
    /\ jobs_queued = MaxJobs
    /\ is_idle

\* C29 (as stated): jobs_processed never exceeds jobs_queued.
C29_ProcessedAtMostQueued == jobs_processed <= jobs_queued

\* C29 (amended): jobs_processed never exceeds jobs_queued while the
\* controller is not inside put; inside put, after the job was enqueued and
\* before jobs_queued is incremented, it exceeds it by at most one.
C29_ProcessedAtMostQueuedOutsidePut ==
    /\ ctl_pc # "put_count" => jobs_processed <= jobs_queued
    /\ ctl_pc = "put_count" => jobs_processed <= jobs_queued + 1

\* C29 witness: the job a put call has just enqueued was processed and
\* counted before the call incremented jobs_queued
C29_Witness ==
    /\ ctl_pc = "put_count"
    /\ jobs_processed = jobs_queued + 1

\* C30: once reset() has returned, the results tagged with a superseded
\* session id that the shared queue still holds, together with those the
\* consumer retrieved after the reset, number at most one per reset() call.
C30_AtMostOneStalePerReset ==
    (job_session_id >= 1 /\ ctl_pc # "reset_inc") =>
        Cardinality({k \in DOMAIN pin_memory_queue :
                        pin_memory_queue[k].sid # None
                        /\ pin_memory_queue[k].sid < job_session_id})
        + Cardinality({k \in DOMAIN delivered :
                        delivered[k].live >= 1
                        /\ delivered[k].sid < delivered[k].live})
          <= job_session_id

\* the session tags of every job and result held anywhere in the pool
TagsHeld ==
    UNION {{worker_input_queues[i][k].sid : k \in DOMAIN worker_input_queues[i]} :
              i \in DOMAIN worker_input_queues}
    \cup UNION {{worker_output_queues[i][k].sid : k \in DOMAIN worker_output_queues[i]} :
              i \in DOMAIN worker_output_queues}
    \cup {worker_job[i].sid : i \in DOMAIN worker_job}
    \cup {pin_item[t].sid : t \in DOMAIN pin_item}
    \cup {pin_memory_queue[k].sid : k \in DOMAIN pin_memory_queue}

\* C31: put tags the job with the session id live at that moment, a worker
\* copies the tag of the job onto its result, no job or result anywhere in
\* the pool carries a tag above the live session id, and a collector goes on
\* to forward a result only when its comparison found the tag equal to the
\* live session id.
C31_SessionTags ==
    /\ [](\A s \in TagsHeld : s <= job_session_id)
    /\ [][/\ \A d \in Payloads :
                put_scan(d) /\ ctl_pc' = "put_count" =>
                    submitted'[Len(submitted')].sid = job_session_id
          /\ \A i \in DOMAIN worker_pc :
                worker_get(i) =>
                    worker_job'[i].sid = Head(worker_input_queues[i]).sid
          /\ \A i \in DOMAIN worker_pc :
                worker_emit(i) =>
                    worker_output_queues'[i][Len(worker_output_queues'[i])].sid
                        = worker_job[i].sid
          /\ \A t \in DOMAIN pin_pc :
                (pin_pc[t] # "put" /\ t \in DOMAIN pin_pc' /\ pin_pc'[t] = "put") =>
                    pin_item[t].sid = job_session_id
          /\ \A t \in DOMAIN pin_pc :
                pin_put(t) => pin_pc[t] = "put"]_vars

\* C31 witness: after a reset a collector found a result of the new session
\* current and goes on to forward it, while a job of the superseded session
\* is still in a worker queue
C31_Witness ==
    /\ job_session_id = 1
    /\ \E t \in DOMAIN pin_pc : pin_pc[t] = "put" /\ pin_item[t].sid = 1
    /\ \E i \in DOMAIN worker_input_queues :
          \E k \in DOMAIN worker_input_queues[i] : worker_input_queues[i][k].sid = 0

\* C32: a job leaves an input queue only when the worker owning that queue
\* takes it, which removes it from the queue, so no second worker can take it;
\* the worker holds its result until it appends it, once, to its own output
\* queue; a step of one worker leaves the queues and the job of every other
\* worker untouched.
C32_OneWorkerPerJob ==
    [][/\ \A i \in DOMAIN worker_input_queues :
             (i \in DOMAIN worker_input_queues'
              /\ Len(worker_input_queues'[i]) < Len(worker_input_queues[i])) =>
                 /\ worker_get(i)
                 /\ worker_input_queues'[i] = Tail(worker_input_queues[i])
                 /\ worker_job'[i] = WorkerResult(Head(worker_input_queues[i]))
       /\ \A i \in DOMAIN worker_output_queues :
             (i \in DOMAIN worker_output_queues'
              /\ Len(worker_output_queues'[i]) > Len(worker_output_queues[i])) =>
                 /\ worker_emit(i)
                 /\ worker_output_queues'[i] =
                       Append(worker_output_queues[i], worker_job[i])
                 /\ worker_job'[i] = NoItem
       /\ \A i \in DOMAIN worker_pc :
             worker(i) =>
                 \A j \in DOMAIN worker_pc \ {i} :
                     /\ worker_input_queues'[j] = worker_input_queues[j]
                     /\ worker_output_queues'[j] = worker_output_queues[j]
                     /\ worker_job'[j] = worker_job[j]
                     /\ worker_pc'[j] = worker_pc[j]]_vars

\* C32 witness: two workers each hold the result of the job taken from their
\* own input queue, and the two results differ
C32_Witness ==
    /\ nb_workers = 2
    /\ worker_pc[0] = "emit"
    /\ worker_pc[1] = "emit"
    /\ worker_job[0].item # worker_job[1].item
    /\ submitted[1].item # submitted[2].item

\* what worker i has still to hand over, oldest first: its output queue, the
\* result it holds, and the results of the jobs waiting in its input queue
WorkerPipeline(i) ==
    worker_output_queues[i]
    \o (IF worker_job[i] # NoItem THEN << worker_job[i] >> ELSE << >>)
    \o [k \in DOMAIN worker_input_queues[i] |-> WorkerResult(worker_input_queues[i][k])]

NoFailureSubmitted ==
    \A k \in DOMAIN submitted : ~TransformRaises(submitted[k].item)

C34_PutAfterIsFullFalse ==
    /\ []((nb_workers >= 1 /\ ctl_pc = "ready" /\ ret = Ret("is_full", "False")) =>
            /\ ~QueueFull(worker_input_queues[worker_control])
            /\ PutScan(0) = worker_control)
    /\ [][/\ \A d \in Payloads :
                (put_scan(d) /\ ret = Ret("is_full", "False")) =>
                    /\ ctl_pc' = "put_count"
                    /\ Len(worker_input_queues'[worker_control]) =
                          Len(worker_input_queues[worker_control]) + 1
          /\ put_count => ret' = Ret("put", "True")
          /\ (is_full /\ ret'.val = "True") => worker_control' = worker_control]_vars

\* C34 witness: is_full() moved the cursor past the full queue of worker 0
\* to the queue of worker 1, which has room, and answered False
C34_Witness ==
    /\ nb_workers = 2
    /\ ctl_pc = "ready"
    /\ ret = Ret("is_full", "False")
    /\ worker_control = 1
    /\ QueueFull(worker_input_queues[0])
    /\ ~QueueFull(worker_input_queues[1])

\* C35: an interrupt signal received by a worker process or a collector
\* thread sets the abort signal and ends that unit; from then on no unit
\* takes a new job or result and a unit that has ended stays ended; and every
\* other worker process and collector thread eventually stops as well.
C35_InterruptStopsAll ==
    /\ [][/\ \A i \in DOMAIN worker_pc :
                worker_interrupt(i) => (abort_event' /\ worker_pc'[i] = "stopped")
          /\ \A t \in DOMAIN pin_pc :
                pin_interrupt(t) => (abort_event' /\ pin_pc'[t] = "dead")
          /\ abort_event =>
                /\ abort_event'
                /\ \A i \in DOMAIN worker_pc : ~worker_get(i)
                /\ \A t \in DOMAIN pin_pc : ~pin_fetch(t)
                /\ \A i \in DOMAIN worker_pc :
                      worker_pc[i] = "stopped" => worker_pc'[i] = "stopped"
                /\ \A t \in DOMAIN pin_pc :
                      pin_pc[t] = "dead" => pin_pc'[t] = "dead"]_vars
    /\ abort_event ~> NoUnitAlive

\* C36: with workers, jobs_queued - jobs_processed never exceeds
\* nb_workers * (2 * max_queue_size_per_worker + 1) + nb_pin_threads, and the
\* shared queue never holds more than
\* max_queue_size_pin_thread_per_worker * nb_workers items.
C36_InFlightBounded ==
    nb_workers >= 1 =>
        /\ jobs_queued - jobs_processed <=
              nb_workers * (2 * max_queue_size_per_worker + 1) + nb_pin_threads
        /\ pin_memory_queue # NoQueue =>
              Len(pin_memory_queue) <=
                  max_queue_size_pin_thread_per_worker * nb_workers

\* C37: an accepted put appends its job to the input queue at the cursor and
\* to no other, and then moves the cursor by exactly one position modulo the
\* worker count; with nothing but put moving the cursor, the j-th accepted
\* job goes to worker (j - 1) mod nb_workers, so k consecutive accepted puts
\* go to k consecutive workers and every worker receives floor(k / n) or
\* ceil(k / n) of them.
C37_RoundRobin ==
    /\ [](/\ ctl_pc = "ready" => worker_control = Len(submitted) % nb_workers
          /\ ctl_pc = "put_count" =>
                worker_control = (Len(submitted) - 1) % nb_workers)
    /\ [][/\ \A d \in Payloads :
                (put_scan(d) /\ ~QueueFull(worker_input_queues[worker_control])) =>
                    /\ ctl_pc' = "put_count"
                    /\ worker_input_queues' =
                          [worker_input_queues EXCEPT ![worker_control] =
                              Append(@, [sid |-> job_session_id, item |-> d])]
                    /\ worker_control' = worker_control
          /\ put_count =>
                /\ worker_control' = (worker_control + 1) % nb_workers
                /\ ret' = Ret("put", "True")]_vars

\* C37 witness: two accepted puts gave one job to each of two workers and
\* the cursor is back at worker 0
C37_Witness ==
    /\ nb_workers = 2
    /\ ctl_pc = "ready"
    /\ Len(submitted) = 2
    /\ worker_control = 0
    /\ Len(worker_input_queues[0]) = 1
    /\ Len(worker_input_queues[1]) = 1

\* every collector thread holds a result and the shared queue is full
AllCollectorsWaiting ==
    /\ PinFull
    /\ \A t \in DOMAIN pin_item : pin_item[t] # NoItem

\* C38: every fetch attempt of a collector thread moves its queue counter to
\* the next worker output queue, cyclically, and takes at most the oldest
\* result of that queue; and, the abort signal not being set, no result
\* stays in a worker's output queue for ever: again and again every output
\* queue is empty, unless every collector thread holds a result in front of
\* a full shared queue.
C38_NoOutputQueueStarved ==
    /\ [][\A t \in DOMAIN pin_pc :
            pin_fetch(t) =>
                /\ queue_ctr'[t] = (queue_ctr[t] + 1) % nb_workers
                /\ \A i \in DOMAIN worker_output_queues :
                      i # queue_ctr'[t] =>
                          worker_output_queues'[i] = worker_output_queues[i]]_vars
    /\ []<>(\/ \A i \in DOMAIN worker_output_queues :
                    worker_output_queues[i] = << >>
             \/ AllCollectorsWaiting)

\* C38 witness: a collector thread holds a result it took from the output
\* queue of worker 0 after its counter came round, while the output queue of
\* worker 1 holds a result
C38_Witness ==
    /\ nb_workers = 2
    /\ \E t \in DOMAIN pin_pc : queue_ctr[t] = 0 /\ pin_item[t] # NoItem
    /\ worker_output_queues[1] # << >>
    /\ ~AllCollectorsWaiting

====
